---- MODULE Spec2Model ----
(***************************************************************************)
(* Model of the MVCC key-value engine of main.go: the Database (store,     *)
(* transaction table, id counter, default isolation), its Connections and  *)
(* Connection.execCommand, one action per command.                         *)
(*                                                                         *)
(* A panic (assert, assertEq, nil dereference) ends the call; the state    *)
(* written before the panic stays as it is, and the call's outcome is      *)
(* recorded in last.panic.                                                 *)
(***************************************************************************)
EXTENDS Naturals, Sequences, FiniteSets, TLC

\* ---- bounds of the model ------------------------------------------------
MaxTx == 3
MaxChain == 2
NumConns == 2
MaxSteps == 5

Conns == 1..NumConns
Keys == {"x", "y"}
Payloads == {"hey", "you"}
OtherCommands == {"rollback"}

\* ---- TransactionState and IsolationLevel (iota constants) -----------------
InProgressTransaction == 0
AbortedTransaction == 1
CommittedTransaction == 2

ReadUncommitedIsolation == 0
ReadCommitedIsolation == 1
RepeatableReadIsolation == 2
SnapshotIsolation == 3
SerializableIsolation == 4

IsolationLevels ==
  {ReadUncommitedIsolation, ReadCommitedIsolation, RepeatableReadIsolation,
   SnapshotIsolation, SerializableIsolation}

\* ---- error and panic messages ---------------------------------------------
ErrGetNotFound == "cannot get key that does not exist"
ErrDeleteNotFound == "cannot delete key that does not exist"
ErrUnimplemented == "unimplemented"
PanicRunning == "no running transactions"
PanicNil == "nil pointer dereference"
PanicValidId == "valid id"
PanicValidTransaction == "valid transaction"
PanicInProgress == "in progress"
PanicUnsupported == "unsupported isolation level"

VARIABLES
  defaultIsolation,   \* Database.defaultIsolation
  store,              \* Database.store: key -> sequence of Value
  transactions,       \* Database.transactions: id -> Transaction (a copy)
  nextTransactionId,  \* Database.nextTransactionId
  tx,                 \* Connection.tx of each connection: <<>> is nil, <<t>> points to t
  last,               \* the latest execCommand call and what it returned
  writes,             \* per key, the set and delete commands that succeeded, in order
  issued,             \* the ids given out by begin, in order
  steps               \* the number of calls made so far

vars == <<defaultIsolation, store, transactions, nextTransactionId, tx, last,
          writes, issued, steps>>

db == <<defaultIsolation, store, transactions, nextTransactionId>>

\* ---- helpers ----------------------------------------------------------------
\* btree.Map.Set: insert or replace the entry of key k
MapSet(m, k, v) == [x \in (DOMAIN m) \cup {k} |-> IF x = k THEN v ELSE m[x]]

\* (result, error) of a call, or the panic that ended it
Outcome(cmd, c, key, result, err, panic) ==
  [cmd |-> cmd, conn |-> c, key |-> key, result |-> result, err |-> err,
   panic |-> panic]

\* ---- Database ---------------------------------------------------------------
\* inprogress without the test of the state
inprogressAll == DOMAIN transactions

inprogress ==
  {id \in DOMAIN transactions : transactions[id].state = InProgressTransaction}

\* newTransaction without d.nextTransactionId++
newTransactionNoIncrement ==
  LET t == [isolation |-> defaultIsolation,
            id |-> nextTransactionId,
            state |-> InProgressTransaction,
            inprogress |-> inprogress,
            writeset |-> {},
            readset |-> {}]
  IN [t |-> t,
      nextTransactionId |-> nextTransactionId,
      transactions |-> MapSet(transactions, t.id, t)]

newTransaction ==
  LET t == [isolation |-> defaultIsolation,
            id |-> nextTransactionId,
            state |-> InProgressTransaction,
            inprogress |-> inprogress,
            writeset |-> {},
            readset |-> {}]
  IN [t |-> t,
      nextTransactionId |-> nextTransactionId + 1,
      transactions |-> MapSet(transactions, t.id, t)]

\* completeTransaction that writes the state to every entry of the table
completeTransactionAll(t, state) ==
  LET done == [t EXCEPT !.state = state]
  IN [id \in DOMAIN MapSet(transactions, done.id, done) |->
        IF id = done.id THEN done ELSE [transactions[id] EXCEPT !.state = state]]

\* completeTransaction that drops the finished transaction from the table
completeTransactionRemove(t, state) ==
  [id \in (DOMAIN transactions) \ {t.id} |-> transactions[id]]

completeTransaction(t, state) ==
  LET done == [t EXCEPT !.state = state]
  IN MapSet(transactions, done.id, done)

\* isvisible that hides the live versions of writers that have not committed
isvisibleCommitted(t, value) ==
  IF t.isolation = ReadUncommitedIsolation
  THEN IF /\ value.txEndId = 0
          /\ \/ value.txStartId = t.id
             \/ transactions[value.txStartId].state = CommittedTransaction
       THEN "true" ELSE "false"
  ELSE "panic"

\* isvisible that shows a transaction only the live versions it wrote itself
isvisibleOwn(t, value) ==
  IF t.isolation = ReadUncommitedIsolation
  THEN IF value.txEndId = 0 /\ value.txStartId = t.id THEN "true" ELSE "false"
  ELSE "panic"

\* "true", "false", or "panic" when the assert fails
isvisible(t, value) ==
  IF t.isolation = ReadUncommitedIsolation
  THEN IF value.txEndId = 0 THEN "true" ELSE "false"
  ELSE "panic"

\* the panic message of assertValidTransaction(p) against table txs, "" when
\* it returns; p is a Connection.tx
assertValidTransaction(txs, p) ==
  IF p = <<>> THEN PanicNil
  ELSE IF ~(p[1].id > 0) THEN PanicValidId
  ELSE IF p[1].id \notin DOMAIN txs THEN PanicValidTransaction
  ELSE IF txs[p[1].id].state # InProgressTransaction THEN PanicInProgress
  ELSE ""

\* ---- the version scans of execCommand ------------------------------------------
\* get: newest to oldest, the first visible version
RECURSIVE getScan(_, _, _)
getScan(t, chain, i) ==
  IF i < 1 THEN [kind |-> "notfound", value |-> ""]
  ELSE LET vis == isvisible(t, chain[i])
       IN IF vis = "panic" THEN [kind |-> "panic", value |-> ""]
          ELSE IF vis = "true" THEN [kind |-> "value", value |-> chain[i].value]
          ELSE getScan(t, chain, i - 1)

\* the scan of set/delete writing txEndId to a copy of the version
RECURSIVE closeScanCopy(_, _, _, _)
closeScanCopy(t, chain, i, found) ==
  IF i < 1 THEN [chain |-> chain, found |-> found, panic |-> FALSE]
  ELSE LET vis == isvisible(t, chain[i])
       IN IF vis = "panic" THEN [chain |-> chain, found |-> found, panic |-> TRUE]
          ELSE IF vis = "true"
               THEN closeScanCopy(t, chain, i - 1, TRUE)
               ELSE closeScanCopy(t, chain, i - 1, found)

\* the scan of set/delete writing txEndId to every version, visible or not
RECURSIVE closeScanAll(_, _, _, _)
closeScanAll(t, chain, i, found) ==
  IF i < 1 THEN [chain |-> chain, found |-> found, panic |-> FALSE]
  ELSE LET vis == isvisible(t, chain[i])
       IN IF vis = "panic" THEN [chain |-> chain, found |-> found, panic |-> TRUE]
          ELSE closeScanAll(t, [chain EXCEPT ![i].txEndId = t.id], i - 1, TRUE)

\* the scan of set/delete writing the id of the version's creator as txEndId
RECURSIVE closeScanCreator(_, _, _, _)
closeScanCreator(t, chain, i, found) ==
  IF i < 1 THEN [chain |-> chain, found |-> found, panic |-> FALSE]
  ELSE LET vis == isvisible(t, chain[i])
       IN IF vis = "panic" THEN [chain |-> chain, found |-> found, panic |-> TRUE]
          ELSE IF vis = "true"
               THEN closeScanCreator(
                      t, [chain EXCEPT ![i].txEndId = chain[i].txStartId],
                      i - 1, TRUE)
               ELSE closeScanCreator(t, chain, i - 1, found)

\* set/delete: newest to oldest, every visible version gets txEndId = t.id
RECURSIVE closeScan(_, _, _, _)
closeScan(t, chain, i, found) ==
  IF i < 1 THEN [chain |-> chain, found |-> found, panic |-> FALSE]
  ELSE LET vis == isvisible(t, chain[i])
       IN IF vis = "panic" THEN [chain |-> chain, found |-> found, panic |-> TRUE]
          ELSE IF vis = "true"
               THEN closeScan(t, [chain EXCEPT ![i].txEndId = t.id], i - 1, TRUE)
               ELSE closeScan(t, chain, i - 1, found)

\* ---- construction -----------------------------------------------------------
Init ==
  /\ defaultIsolation = ReadCommitedIsolation
  /\ store = [k \in Keys |-> <<>>]
  /\ transactions = <<>>
  /\ nextTransactionId = 1
  /\ tx = [c \in Conns |-> <<>>]
  /\ last = Outcome("", 0, "", "", "", "")
  /\ writes = [k \in Keys |-> <<>>]
  /\ issued = <<>>
  /\ steps = 0

\* one more call; runs are explored up to MaxSteps calls
Tick ==
  /\ steps < MaxSteps
  /\ steps' = steps + 1

\* the caller's assignment database.defaultIsolation = level, made after
\* construction and before the first command
SetDefaultIsolation(level) ==
  /\ steps = 0
  /\ defaultIsolation # level
  /\ defaultIsolation' = level
  /\ UNCHANGED <<store, transactions, nextTransactionId, tx, last, writes,
                 issued, steps>>

\* ---- Connection.execCommand ----------------------------------------------------
\* begin without the assertEq on c.tx
BeginNoCheck(c) ==
  /\ Tick
  /\ nextTransactionId <= MaxTx
  /\ LET n == newTransaction
     IN /\ nextTransactionId' = n.nextTransactionId
        /\ transactions' = n.transactions
        /\ tx' = [tx EXCEPT ![c] = <<n.t>>]
        /\ issued' = Append(issued, n.t.id)
        /\ last' = Outcome("begin", c, "", ToString(n.t.id), "", "")
  /\ UNCHANGED <<defaultIsolation, store, writes>>

Begin(c) ==
  /\ Tick
  /\ IF tx[c] # <<>>
     THEN /\ last' = Outcome("begin", c, "", "", "", PanicRunning)
          /\ UNCHANGED <<db, tx, writes, issued>>
     ELSE /\ nextTransactionId <= MaxTx
          /\ LET n == newTransaction
             IN /\ nextTransactionId' = n.nextTransactionId
                /\ transactions' = n.transactions
                /\ tx' = [tx EXCEPT ![c] = <<n.t>>]
                /\ issued' = Append(issued, n.t.id)
                /\ LET p == assertValidTransaction(n.transactions, <<n.t>>)
                   IN last' = IF p # "" THEN Outcome("begin", c, "", "", "", p)
                              ELSE Outcome("begin", c, "", ToString(n.t.id), "", "")
          /\ UNCHANGED <<defaultIsolation, store, writes>>

\* abort/commit without c.tx = nil
CompleteKeepTx(c, cmd, state) ==
  /\ Tick
  /\ LET p == assertValidTransaction(transactions, tx[c])
     IN IF p # ""
        THEN /\ last' = Outcome(cmd, c, "", "", "", p)
             /\ UNCHANGED <<db, tx, writes, issued>>
        ELSE /\ transactions' = completeTransaction(tx[c][1], state)
             /\ tx' = [tx EXCEPT ![c] = <<[tx[c][1] EXCEPT !.state = state]>>]
             /\ last' = Outcome(cmd, c, "", "", "", "")
             /\ UNCHANGED <<defaultIsolation, store, nextTransactionId, writes, issued>>

Complete(c, cmd, state) ==
  /\ Tick
  /\ LET p == assertValidTransaction(transactions, tx[c])
     IN IF p # ""
        THEN /\ last' = Outcome(cmd, c, "", "", "", p)
             /\ UNCHANGED <<db, tx, writes, issued>>
        ELSE /\ transactions' = completeTransaction(tx[c][1], state)
             /\ tx' = [tx EXCEPT ![c] = <<>>]
             /\ last' = Outcome(cmd, c, "", "", "", "")
             /\ UNCHANGED <<defaultIsolation, store, nextTransactionId, writes, issued>>

\* abort that records CommittedTransaction
AbortAsCommit(c) == Complete(c, "abort", CommittedTransaction)

Abort(c) == Complete(c, "abort", AbortedTransaction)

Commit(c) == Complete(c, "commit", CommittedTransaction)

\* get that records the key in the write set as well
GetWriteset(c, key) ==
  /\ Tick
  /\ LET p == assertValidTransaction(transactions, tx[c])
     IN IF p # ""
        THEN /\ last' = Outcome("get", c, key, "", "", p)
             /\ UNCHANGED <<db, tx, writes, issued>>
        ELSE LET t == [tx[c][1] EXCEPT !.readset = @ \cup {key},
                                       !.writeset = @ \cup {key}]
                 r == getScan(t, store[key], Len(store[key]))
             IN /\ tx' = [tx EXCEPT ![c] = <<t>>]
                /\ last' = IF r.kind = "panic"
                           THEN Outcome("get", c, key, "", "", PanicUnsupported)
                           ELSE IF r.kind = "value"
                           THEN Outcome("get", c, key, r.value, "", "")
                           ELSE Outcome("get", c, key, "", ErrGetNotFound, "")
                /\ UNCHANGED <<db, writes, issued>>

\* get that overwrites the read set with the key
GetReplace(c, key) ==
  /\ Tick
  /\ LET p == assertValidTransaction(transactions, tx[c])
     IN IF p # ""
        THEN /\ last' = Outcome("get", c, key, "", "", p)
             /\ UNCHANGED <<db, tx, writes, issued>>
        ELSE LET t == [tx[c][1] EXCEPT !.readset = {key}]
                 r == getScan(t, store[key], Len(store[key]))
             IN /\ tx' = [tx EXCEPT ![c] = <<t>>]
                /\ last' = IF r.kind = "panic"
                           THEN Outcome("get", c, key, "", "", PanicUnsupported)
                           ELSE IF r.kind = "value"
                           THEN Outcome("get", c, key, r.value, "", "")
                           ELSE Outcome("get", c, key, "", ErrGetNotFound, "")
                /\ UNCHANGED <<db, writes, issued>>

Get(c, key) ==
  /\ Tick
  /\ LET p == assertValidTransaction(transactions, tx[c])
     IN IF p # ""
        THEN /\ last' = Outcome("get", c, key, "", "", p)
             /\ UNCHANGED <<db, tx, writes, issued>>
        ELSE LET t == [tx[c][1] EXCEPT !.readset = @ \cup {key}]
                 r == getScan(t, store[key], Len(store[key]))
             IN /\ tx' = [tx EXCEPT ![c] = <<t>>]
                /\ last' = IF r.kind = "panic"
                           THEN Outcome("get", c, key, "", "", PanicUnsupported)
                           ELSE IF r.kind = "value"
                           THEN Outcome("get", c, key, r.value, "", "")
                           ELSE Outcome("get", c, key, "", ErrGetNotFound, "")
                /\ UNCHANGED <<db, writes, issued>>

\* set that appends the new version before the scan
SetAppendFirst(c, key, value) ==
  /\ Tick
  /\ LET p == assertValidTransaction(transactions, tx[c])
     IN IF p # ""
        THEN /\ last' = Outcome("set", c, key, "", "", p)
             /\ UNCHANGED <<db, tx, writes, issued>>
        ELSE LET t == tx[c][1]
                 new == [txStartId |-> t.id, txEndId |-> 0, value |-> value]
                 s == closeScan(t, Append(store[key], new),
                                Len(store[key]) + 1, FALSE)
             IN /\ ~s.panic
                /\ Len(store[key]) < MaxChain
                /\ store' = [store EXCEPT ![key] = s.chain]
                /\ tx' = [tx EXCEPT ![c] =
                     <<[t EXCEPT !.writeset = @ \cup {key}]>>]
                /\ writes' = [writes EXCEPT ![key] =
                     Append(@, [cmd |-> "set", tx |-> t.id, value |-> value])]
                /\ last' = Outcome("set", c, key, value, "", "")
                /\ UNCHANGED <<defaultIsolation, transactions,
                               nextTransactionId, issued>>

\* set without c.tx.writeset.Insert(key)
SetNoWriteset(c, key, value) ==
  /\ Tick
  /\ LET p == assertValidTransaction(transactions, tx[c])
     IN IF p # ""
        THEN /\ last' = Outcome("set", c, key, "", "", p)
             /\ UNCHANGED <<db, tx, writes, issued>>
        ELSE LET t == tx[c][1]
                 s == closeScan(t, store[key], Len(store[key]), FALSE)
             IN IF s.panic
                THEN /\ store' = [store EXCEPT ![key] = s.chain]
                     /\ last' = Outcome("set", c, key, "", "", PanicUnsupported)
                     /\ UNCHANGED <<defaultIsolation, transactions,
                                    nextTransactionId, tx, writes, issued>>
                ELSE /\ Len(store[key]) < MaxChain
                     /\ store' = [store EXCEPT ![key] =
                          Append(s.chain, [txStartId |-> t.id, txEndId |-> 0,
                                           value |-> value])]
                     /\ writes' = [writes EXCEPT ![key] =
                          Append(@, [cmd |-> "set", tx |-> t.id, value |-> value])]
                     /\ last' = Outcome("set", c, key, value, "", "")
                     /\ UNCHANGED <<defaultIsolation, transactions,
                                    nextTransactionId, tx, issued>>

Set(c, key, value) ==
  /\ Tick
  /\ LET p == assertValidTransaction(transactions, tx[c])
     IN IF p # ""
        THEN /\ last' = Outcome("set", c, key, "", "", p)
             /\ UNCHANGED <<db, tx, writes, issued>>
        ELSE LET t == tx[c][1]
                 s == closeScan(t, store[key], Len(store[key]), FALSE)
             IN IF s.panic
                THEN /\ store' = [store EXCEPT ![key] = s.chain]
                     /\ last' = Outcome("set", c, key, "", "", PanicUnsupported)
                     /\ UNCHANGED <<defaultIsolation, transactions,
                                    nextTransactionId, tx, writes, issued>>
                ELSE /\ Len(store[key]) < MaxChain
                     /\ store' = [store EXCEPT ![key] =
                          Append(s.chain, [txStartId |-> t.id, txEndId |-> 0,
                                           value |-> value])]
                     /\ tx' = [tx EXCEPT ![c] =
                          <<[t EXCEPT !.writeset = @ \cup {key}]>>]
                     /\ writes' = [writes EXCEPT ![key] =
                          Append(@, [cmd |-> "set", tx |-> t.id, value |-> value])]
                     /\ last' = Outcome("set", c, key, value, "", "")
                     /\ UNCHANGED <<defaultIsolation, transactions,
                                    nextTransactionId, issued>>

\* delete that records the key in the write set before it looks at found
DeleteEager(c, key) ==
  /\ Tick
  /\ LET p == assertValidTransaction(transactions, tx[c])
     IN IF p # ""
        THEN /\ last' = Outcome("delete", c, key, "", "", p)
             /\ UNCHANGED <<db, tx, writes, issued>>
        ELSE LET t == tx[c][1]
                 s == closeScan(t, store[key], Len(store[key]), FALSE)
             IN /\ ~s.panic
                /\ store' = [store EXCEPT ![key] = s.chain]
                /\ tx' = [tx EXCEPT ![c] =
                     <<[t EXCEPT !.writeset = @ \cup {key}]>>]
                /\ writes' = IF s.found
                     THEN [writes EXCEPT ![key] =
                       Append(@, [cmd |-> "delete", tx |-> t.id, value |-> ""])]
                     ELSE writes
                /\ last' = IF s.found
                     THEN Outcome("delete", c, key, "", "", "")
                     ELSE Outcome("delete", c, key, "", ErrDeleteNotFound, "")
                /\ UNCHANGED <<defaultIsolation, transactions,
                               nextTransactionId, issued>>

Delete(c, key) ==
  /\ Tick
  /\ LET p == assertValidTransaction(transactions, tx[c])
     IN IF p # ""
        THEN /\ last' = Outcome("delete", c, key, "", "", p)
             /\ UNCHANGED <<db, tx, writes, issued>>
        ELSE LET t == tx[c][1]
                 s == closeScan(t, store[key], Len(store[key]), FALSE)
             IN IF s.panic
                THEN /\ store' = [store EXCEPT ![key] = s.chain]
                     /\ last' = Outcome("delete", c, key, "", "", PanicUnsupported)
                     /\ UNCHANGED <<defaultIsolation, transactions,
                                    nextTransactionId, tx, writes, issued>>
                ELSE IF ~s.found
                THEN /\ store' = [store EXCEPT ![key] = s.chain]
                     /\ last' = Outcome("delete", c, key, "", ErrDeleteNotFound, "")
                     /\ UNCHANGED <<defaultIsolation, transactions,
                                    nextTransactionId, tx, writes, issued>>
                ELSE /\ store' = [store EXCEPT ![key] = s.chain]
                     /\ tx' = [tx EXCEPT ![c] =
                          <<[t EXCEPT !.writeset = @ \cup {key}]>>]
                     /\ writes' = [writes EXCEPT ![key] =
                          Append(@, [cmd |-> "delete", tx |-> t.id, value |-> ""])]
                     /\ last' = Outcome("delete", c, key, "", "", "")
                     /\ UNCHANGED <<defaultIsolation, transactions,
                                    nextTransactionId, issued>>

\* the fall-through return behind an assertValidTransaction
UnimplementedValidated(c, cmd) ==
  /\ Tick
  /\ LET p == assertValidTransaction(transactions, tx[c])
     IN last' = IF p # "" THEN Outcome(cmd, c, "", "", "", p)
                ELSE Outcome(cmd, c, "", "", ErrUnimplemented, "")
  /\ UNCHANGED <<db, tx, writes, issued>>

\* any other command name: the final return of execCommand
Unimplemented(c, cmd) ==
  /\ Tick
  /\ last' = Outcome(cmd, c, "", "", ErrUnimplemented, "")
  /\ UNCHANGED <<db, tx, writes, issued>>

Next ==
  \/ \E level \in IsolationLevels : SetDefaultIsolation(level)
  \/ \E c \in Conns : Begin(c)
  \/ \E c \in Conns : Abort(c)
  \/ \E c \in Conns : Commit(c)
  \/ \E c \in Conns, key \in Keys : Get(c, key)
  \/ \E c \in Conns, key \in Keys, value \in Payloads : Set(c, key, value)
  \/ \E c \in Conns, key \in Keys : Delete(c, key)
  \/ \E c \in Conns, cmd \in OtherCommands : Unimplemented(c, cmd)

Spec == Init /\ [][Next]_vars

\* ---- vocabulary of the properties -------------------------------------------
Commands == {"begin", "abort", "commit", "get", "set", "delete"}

\* a call was made in this step
Called == steps' = steps + 1

\* the connection holds a transaction of the given kind
Active(c) == tx[c] # <<>>
ActiveRU(c) == Active(c) /\ tx[c][1].isolation = ReadUncommitedIsolation

\* the latest set or delete that succeeded on key k
LastWrite(k) == writes[k][Len(writes[k])]

NoLive(chain) == \A i \in 1..Len(chain) : chain[i].txEndId # 0

\* C1: under ReadUncommitted a get(k) by an in-progress transaction B returns
\* the value v of the latest set(k, v), when no set or delete of k came after
\* it, whatever the state (InProgress, Committed, Aborted) of the writer A.
C1_DirtyRead ==
  (/\ last.cmd = "get"
   /\ last.conn \in Conns
   /\ ActiveRU(last.conn)
   /\ writes[last.key] # <<>>
   /\ LastWrite(last.key).cmd = "set")
  => /\ last.result = LastWrite(last.key).value
     /\ last.err = ""
     /\ last.panic = ""

\* B reads the value of a writer A that has aborted in between
C1_Witness ==
  /\ last.cmd = "get"
  /\ ActiveRU(last.conn)
  /\ writes[last.key] # <<>>
  /\ LastWrite(last.key).cmd = "set"
  /\ LastWrite(last.key).tx # tx[last.conn][1].id
  /\ transactions[LastWrite(last.key).tx].state = AbortedTransaction
  /\ last.result = LastWrite(last.key).value

C3_Original ==
  [][(Called /\ last'.cmd = "get" /\ last'.err = ErrGetNotFound)
     => /\ UNCHANGED <<store, transactions, nextTransactionId>>
        /\ tx' = tx]_vars

\* C3 (amended): a get(k) that fails with NotFound leaves the store, the
\* transaction table, the id counter, the default isolation, every
\* connection's binding and every write set unchanged; the only change is
\* that k is in the read set of the issuing connection's transaction.
C3_Amended ==
  [][(Called /\ last'.cmd = "get" /\ last'.err = ErrGetNotFound)
     => /\ UNCHANGED <<defaultIsolation, store, transactions, nextTransactionId>>
        /\ Active(last'.conn)
        /\ tx' = [tx EXCEPT ![last'.conn] =
                    <<[tx[last'.conn][1] EXCEPT
                         !.readset = @ \cup {last'.key}]>>]]_vars

\* a NotFound get of a key whose versions are all ended
C3_Witness ==
  /\ last.cmd = "get"
  /\ last.err = ErrGetNotFound
  /\ store[last.key] # <<>>
  /\ NoLive(store[last.key])
  /\ last.key \in tx[last.conn][1].readset

\* C4: a delete(k) by an active transaction when k has no live version (under
\* ReadUncommitted, or with an empty chain at any level) fails with "cannot
\* delete key that does not exist" and changes nothing: no version is closed
\* or appended and k does not enter the write set.
C4_DeleteNotFound ==
  [][(/\ Called
      /\ last'.cmd = "delete"
      /\ Active(last'.conn)
      /\ NoLive(store[last'.key])
      /\ (ActiveRU(last'.conn) \/ store[last'.key] = <<>>))
     => /\ last'.err = ErrDeleteNotFound
        /\ last'.result = ""
        /\ last'.panic = ""
        /\ UNCHANGED <<db, tx, writes>>]_vars

\* a failed delete of a key whose versions are all ended
C4_Witness ==
  /\ last.cmd = "delete"
  /\ last.err = ErrDeleteNotFound
  /\ store[last.key] # <<>>
  /\ NoLive(store[last.key])
  /\ last.key \notin tx[last.conn][1].writeset

\* C5: the ids returned by begin are 1, 2, 3, ... in the order of the calls:
\* strictly increasing, never reused after an abort or commit, never 0.
C5_IdsInOrder ==
  /\ \A i \in 1..Len(issued) : issued[i] = i
  /\ (last.cmd = "begin" /\ last.panic = "")
     => /\ issued # <<>>
        /\ last.result = ToString(issued[Len(issued)])
        /\ last.err = ""

\* a third begin after earlier transactions were aborted and committed
C5_Witness ==
  /\ last.cmd = "begin"
  /\ last.result = "3"
  /\ transactions[1].state = AbortedTransaction
  /\ transactions[2].state = CommittedTransaction

\* C6: begin on a connection that already has a transaction fails fatally
\* and consumes no id, adds no table entry, keeps the connection bound to its
\* transaction and leaves the store as it is.
C6_DoubleBegin ==
  [][(Called /\ last'.cmd = "begin" /\ Active(last'.conn))
     => /\ last'.panic = PanicRunning
        /\ last'.result = ""
        /\ UNCHANGED <<db, tx, issued>>]_vars

C6_Witness ==
  /\ last.cmd = "begin"
  /\ last.panic = PanicRunning
  /\ Active(last.conn)
  /\ nextTransactionId = 2

\* the set commands among the writes of a key, in order
Sets(k) == SelectSeq(writes[k], LAMBDA w : w.cmd = "set")

\* the number of set commands among the first j writes of a key
SetsUpTo(k, j) == Len(SelectSeq(SubSeq(writes[k], 1, j), LAMBDA w : w.cmd = "set"))

\* C7: most recent write wins under ReadUncommitted: the chain of k holds
\* one entry per set, in the order of the sets; an entry whose set was
\* followed by another set (no delete in between) has endedBy = the id of the
\* transaction of that next set; and after a run of sets get(k) returns the
\* value of the last one.
C7_LastSetWins ==
  \A k \in Keys :
    /\ Len(store[k]) = Len(Sets(k))
    /\ \A i \in 1..Len(store[k]) :
         /\ store[k][i].txStartId = Sets(k)[i].tx
         /\ store[k][i].value = Sets(k)[i].value
    /\ \A j \in 1..(Len(writes[k]) - 1) :
         (writes[k][j].cmd = "set" /\ writes[k][j + 1].cmd = "set")
         => store[k][SetsUpTo(k, j)].txEndId = writes[k][j + 1].tx
    /\ (writes[k] # <<>> /\ LastWrite(k).cmd = "set")
       => \A c \in Conns :
            ActiveRU(c)
            => getScan(tx[c][1], store[k], Len(store[k]))
                 = [kind |-> "value", value |-> LastWrite(k).value]

\* two sets of different transactions and values, then a get of the second
C7_Witness ==
  /\ last.cmd = "get"
  /\ Len(writes[last.key]) = 2
  /\ writes[last.key][1].cmd = "set"
  /\ writes[last.key][2].cmd = "set"
  /\ writes[last.key][1].tx # writes[last.key][2].tx
  /\ writes[last.key][1].value # writes[last.key][2].value
  /\ last.result = writes[last.key][2].value

\* C8 as stated: a get, set or delete of a transaction at ReadCommitted,
\* RepeatableRead, Snapshot or Serializable always fails with the fatal
\* "unsupported isolation level", whatever the chain holds.
C8_Unsupported ==
  (/\ last.cmd \in {"get", "set", "delete"}
   /\ last.conn \in Conns
   /\ Active(last.conn)
   /\ tx[last.conn][1].isolation # ReadUncommitedIsolation)
  => last.panic = PanicUnsupported

\* C9: a transaction recorded as Aborted or Committed keeps that state
\* whatever command follows on whatever connection.
C9_Terminal ==
  [][\A id \in DOMAIN transactions :
       transactions[id].state # InProgressTransaction
       => /\ id \in DOMAIN transactions'
          /\ transactions'[id].state = transactions[id].state]_vars

\* a commit issued after the only transaction was aborted
C9_Witness ==
  /\ last.cmd = "commit"
  /\ last.panic # ""
  /\ DOMAIN transactions = {1}
  /\ transactions[1].state = AbortedTransaction

\* C10: a command name other than the six known ones returns ("",
\* "unimplemented") without a panic, on an idle and on an active connection,
\* and changes neither store, table, id counter nor bindings.
C10_Unimplemented ==
  [][(Called /\ last'.cmd \notin Commands)
     => /\ last'.result = ""
        /\ last'.err = ErrUnimplemented
        /\ last'.panic = ""
        /\ UNCHANGED <<db, tx>>]_vars

\* an unknown command on an idle connection while another one is active
C10_Witness ==
  /\ last.cmd \in OtherCommands
  /\ last.conn \in Conns
  /\ last.err = ErrUnimplemented
  /\ ~Active(last.conn)
  /\ \E c \in Conns : Active(c)

\* C11: a set(k, v) of an in-progress ReadUncommitted transaction T succeeds
\* and returns v: the versions of k that were live get endedBy = T.id, the
\* others stay as they are, one live version (T.id, v) is appended at the
\* end, k enters T's write set and the chains of the other keys do not change.
C11_SetSucceeds ==
  [][(Called /\ last'.cmd = "set" /\ ActiveRU(last'.conn))
     => LET c == last'.conn
            k == last'.key
            t == tx[c][1]
            old == store[k]
            new == store'[k]
        IN /\ last'.panic = ""
           /\ last'.err = ""
           /\ last'.result \in Payloads
           /\ Len(new) = Len(old) + 1
           /\ new[Len(new)] = [txStartId |-> t.id, txEndId |-> 0,
                               value |-> last'.result]
           /\ \A i \in 1..Len(old) :
                /\ new[i].txStartId = old[i].txStartId
                /\ new[i].value = old[i].value
                /\ new[i].txEndId =
                     IF old[i].txEndId = 0 THEN t.id ELSE old[i].txEndId
           /\ (old = <<>> => Len(new) = 1)
           /\ tx'[c] = <<[t EXCEPT !.writeset = @ \cup {k}]>>
           /\ \A k2 \in Keys \ {k} : store'[k2] = store[k2]]_vars

\* a set that closes another transaction's live version while the other key
\* has a version of its own
C11_Witness ==
  /\ last.cmd = "set"
  /\ last.panic = ""
  /\ ActiveRU(last.conn)
  /\ Len(store[last.key]) = 2
  /\ store[last.key][1].txStartId # tx[last.conn][1].id
  /\ store[last.key][1].txEndId = tx[last.conn][1].id
  /\ store[last.key][2].txEndId = 0
  /\ last.key \in tx[last.conn][1].writeset
  /\ \E k2 \in Keys \ {last.key} : store[k2] # <<>>

\* C12 as stated: a get, set, delete, abort or commit on a connection with no
\* transaction, and a get, set or delete of a transaction at an unsupported
\* isolation level, fail fatally and leave the store, the transaction table,
\* the id counter, the bindings and all read and write sets as they were.
C12_FatalNoChange ==
  [][(/\ Called
      /\ \/ /\ last'.cmd \in {"get", "set", "delete", "abort", "commit"}
            /\ ~Active(last'.conn)
         \/ /\ last'.cmd \in {"get", "set", "delete"}
            /\ Active(last'.conn)
            /\ ~ActiveRU(last'.conn))
     => /\ last'.panic # ""
        /\ UNCHANGED <<store, transactions, nextTransactionId, tx>>]_vars

\* C13: every connection is idle or bound to one transaction that the table
\* records as InProgress, and a connection is idle after its abort or commit.
C13_IdleOrInProgress ==
  /\ \A c \in Conns :
       \/ tx[c] = <<>>
       \/ /\ Len(tx[c]) = 1
          /\ tx[c][1].id \in DOMAIN transactions
          /\ transactions[tx[c][1].id].state = InProgressTransaction
          /\ tx[c][1].state = InProgressTransaction
  /\ (last.cmd \in {"abort", "commit"} /\ last.conn \in Conns)
     => tx[last.conn] = <<>>

\* a commit has left its connection idle while another one stays bound
C13_Witness ==
  /\ last.cmd = "commit"
  /\ last.panic = ""
  /\ tx[last.conn] = <<>>
  /\ \E c \in Conns : Active(c)
  /\ \E id \in DOMAIN transactions : transactions[id].state = CommittedTransaction

\* C14: version history is preserved: in every step each chain keeps its
\* entries at their positions with the same createdBy and payload, and an
\* endedBy changes only from 0 to a transaction id, never afterwards.
C14_HistoryPreserved ==
  [][\A k \in Keys :
       /\ Len(store'[k]) >= Len(store[k])
       /\ \A i \in 1..Len(store[k]) :
            /\ store'[k][i].txStartId = store[k][i].txStartId
            /\ store'[k][i].value = store[k][i].value
            /\ \/ store'[k][i].txEndId = store[k][i].txEndId
               \/ store[k][i].txEndId = 0 /\ store'[k][i].txEndId # 0]_vars

\* a chain that grew to two entries, each closed later by the other transaction
C14_Witness ==
  \E k \in Keys :
    /\ Len(store[k]) = 2
    /\ store[k][1].txEndId # 0
    /\ store[k][2].txEndId # 0
    /\ store[k][1].txEndId # store[k][2].txEndId
    /\ store[k][1].txEndId = store[k][2].txStartId

\* C15: every key has at most one live version, and a live version is the
\* last entry of its chain.
C15_OneLiveLast ==
  \A k \in Keys :
    \A i \in 1..Len(store[k]) :
      store[k][i].txEndId = 0 => i = Len(store[k])

\* two versions of two different transactions, the second one live
C15_Witness ==
  \E k \in Keys :
    /\ Len(store[k]) = 2
    /\ store[k][1].txStartId # store[k][2].txStartId
    /\ store[k][1].txEndId = store[k][2].txStartId
    /\ store[k][2].txEndId = 0
    /\ defaultIsolation = ReadUncommitedIsolation

\* C16: abort and commit on a connection with a transaction succeed with an
\* empty result, record Aborted resp. Committed for it in the table and leave
\* the store as it is: the versions and endedBy marks of the transaction stay.
C16_CompleteKeepsStore ==
  [][(Called /\ last'.cmd \in {"abort", "commit"} /\ Active(last'.conn))
     => /\ last'.result = ""
        /\ last'.err = ""
        /\ last'.panic = ""
        /\ transactions'[tx[last'.conn][1].id].state =
             (IF last'.cmd = "abort" THEN AbortedTransaction
              ELSE CommittedTransaction)
        /\ store' = store]_vars

\* after the abort of a transaction the version it wrote is still live and
\* the version it closed is still closed
C16_Witness ==
  /\ last.cmd = "abort"
  /\ last.panic = ""
  /\ \E k \in Keys, id \in DOMAIN transactions :
       /\ transactions[id].state = AbortedTransaction
       /\ Len(store[k]) = 2
       /\ store[k][1].txStartId # id
       /\ store[k][1].txEndId = id
       /\ store[k][2].txStartId = id
       /\ store[k][2].txEndId = 0

\* the ids of the transactions bound to a connection
BoundIds == {tx[c][1].id : c \in {d \in Conns : Active(d)}}

\* C17: the inprogress set of a transaction created by begin is the set of
\* the ids that were InProgress at that moment (those begun on a connection
\* and not yet aborted or committed), and no later command changes it.
C17_Snapshot ==
  [][/\ (Called /\ last'.cmd = "begin" /\ last'.panic = "")
        => LET t == tx'[last'.conn][1]
           IN /\ t.inprogress = BoundIds
              /\ t.inprogress =
                   {id \in DOMAIN transactions :
                      transactions[id].state = InProgressTransaction}
              /\ transactions'[t.id].inprogress = t.inprogress
     /\ \A id \in DOMAIN transactions :
          transactions'[id].inprogress = transactions[id].inprogress
     /\ \A c \in Conns :
          (Active(c) /\ tx'[c] # <<>>)
          => tx'[c][1].inprogress = tx[c][1].inprogress]_vars

\* the third transaction began while only the second was in progress, and
\* keeps that snapshot after the second has ended
C17_Witness ==
  /\ DOMAIN transactions = {1, 2, 3}
  /\ transactions[3].inprogress = {2}
  /\ transactions[1].state # InProgressTransaction
  /\ transactions[2].state # InProgressTransaction

\* C18: read and write sets only grow: a get(k) of a transaction puts k in
\* its read set whatever it returns, a set(k, _) and a successful delete(k)
\* put k in its write set, the sets reach the table at abort or commit, and
\* no command removes a key or touches the sets of another transaction.
C18_SetsGrow ==
  [][/\ \A c \in Conns :
          (Active(c) /\ tx'[c] # <<>>)
          => /\ tx'[c][1].id = tx[c][1].id
             /\ tx[c][1].readset \subseteq tx'[c][1].readset
             /\ tx[c][1].writeset \subseteq tx'[c][1].writeset
     /\ \A id \in DOMAIN transactions :
          /\ transactions[id].readset \subseteq transactions'[id].readset
          /\ transactions[id].writeset \subseteq transactions'[id].writeset
     /\ Called => \A c \in Conns \ {last'.conn} : tx'[c] = tx[c]
     /\ (Called /\ last'.cmd = "get" /\ Active(last'.conn))
        => /\ tx'[last'.conn][1].readset =
                tx[last'.conn][1].readset \cup {last'.key}
           /\ tx'[last'.conn][1].writeset = tx[last'.conn][1].writeset
     /\ (/\ Called
         /\ last'.cmd \in {"set", "delete"}
         /\ Active(last'.conn)
         /\ last'.panic = ""
         /\ last'.err = "")
        => /\ tx'[last'.conn][1].writeset =
                tx[last'.conn][1].writeset \cup {last'.key}
           /\ tx'[last'.conn][1].readset = tx[last'.conn][1].readset
     /\ (/\ Called
         /\ last'.cmd \in {"abort", "commit"}
         /\ Active(last'.conn))
        => /\ transactions'[tx[last'.conn][1].id].readset =
                tx[last'.conn][1].readset
           /\ transactions'[tx[last'.conn][1].id].writeset =
                tx[last'.conn][1].writeset]_vars

\* a NotFound get of a second key by a transaction that has written
C18_Witness ==
  /\ last.cmd = "get"
  /\ last.err = ErrGetNotFound
  /\ Active(last.conn)
  /\ tx[last.conn][1].readset = Keys
  /\ tx[last.conn][1].writeset # {}

\* C19: the key set of the transaction table is {1, ..., nextTransactionId - 1}
\* in every state; only begin adds an entry and no entry is ever removed.
C19_TablePermanent ==
  /\ [](DOMAIN transactions = 1..(nextTransactionId - 1))
  /\ [][/\ DOMAIN transactions \subseteq DOMAIN transactions'
        /\ (DOMAIN transactions' # DOMAIN transactions)
           => (Called /\ last'.cmd = "begin")]_vars

\* two transactions, one aborted and one committed, both still in the table
C19_Witness ==
  /\ DOMAIN transactions = {1, 2}
  /\ nextTransactionId = 3
  /\ \E id \in {1, 2} : transactions[id].state = AbortedTransaction
  /\ \E id \in {1, 2} : transactions[id].state = CommittedTransaction

\* C20: every version has a createdBy that is the id of a transaction of the
\* table and an endedBy that is 0 or such an id; and a step that appends or
\* closes a version writes the id of a transaction recorded as InProgress.
C20_VersionIds ==
  /\ [](\A k \in Keys :
          \A i \in 1..Len(store[k]) :
            /\ store[k][i].txStartId \in 1..(nextTransactionId - 1)
            /\ store[k][i].txStartId \in DOMAIN transactions
            /\ store[k][i].txEndId \in 0..(nextTransactionId - 1)
            /\ store[k][i].txEndId \in (DOMAIN transactions) \cup {0})
  /\ [][\A k \in Keys :
          \A i \in 1..Len(store'[k]) :
            /\ i > Len(store[k])
               => /\ store'[k][i].txStartId \in inprogress
                  /\ transactions'[store'[k][i].txStartId].state =
                       InProgressTransaction
            /\ (i <= Len(store[k])
                /\ store'[k][i].txEndId # store[k][i].txEndId)
               => /\ store'[k][i].txEndId \in inprogress
                  /\ transactions'[store'[k][i].txEndId].state =
                       InProgressTransaction]_vars

\* a version written by a transaction that aborted, closed by a later one
C20_Witness ==
  \E k \in Keys :
    /\ store[k] # <<>>
    /\ transactions[store[k][1].txStartId].state = AbortedTransaction
    /\ store[k][1].txEndId \notin {0, store[k][1].txStartId}

====
